---- MODULE Spec2Model ----
(***************************************************************************)
(* Model of the route planner backend: the gathering orchestrator          *)
(* (backend/adapters/orchestrator.py), the provider adapters               *)
(* (backend/adapters/*.py), the plan endpoint (backend/main.py), the four  *)
(* scoring agents (backend/agents/*.py) and the MCP client with its        *)
(* provider subprocess (backend/utils/mcp_client.py).                      *)
(*                                                                         *)
(* Specifications.  Spec: one plan request.  AgentSpec: the agents applied *)
(* to bounded inputs.  AdapterSpec: one adapter applied to what the        *)
(* provider does with its tool calls.  ClientSpec / FairClientSpec: one    *)
(* adapter invocation followed through its MCP client, step by step.       *)
(* SafetySpec: the safety context provider's get_safety_data               *)
(* (mcp_server/main.py, mcp_server/providers/safety_adapter.py) applied to *)
(* bounded inputs.                                                         *)
(*                                                                         *)
(* Numbers.  Times are whole minutes, costs whole dollars, CO2 whole       *)
(* grams.  Scores are exact rationals kept as integers in units of         *)
(* 1/ScoreScale; risk penalties are kept in hundredths.  Optional fields   *)
(* that are absent hold the value None.                                    *)
(***************************************************************************)
EXTENDS Integers, Sequences, FiniteSets, TLC

VARIABLES
    pc,            \* position of the plan request
    task,          \* fan-out task of each registered adapter: "pending" / "done"
    results,       \* slot of each fan-out task in the list asyncio.gather returns
    completed,     \* the order in which the fan-out tasks finished
    calls,         \* number of invocations of each adapter so far
    all_options,   \* gather_all_options: the flattened list
    baseline,      \* gather_all_options: what the fallback invocation returned
    gather_out,    \* outcome of gather_all_options as seen by plan
    options,       \* plan: the option list
    last_resort,   \* plan: outcome of its own baseline invocation
    safety_reply,  \* what the provider process did with the safety-data request
    safety_data,   \* plan: outcome of the safety-data tool call
    risk_penalty,  \* plan: risk penalty handed to the Safety Agent (hundredths)
    night_walk_min,\* plan: night walk minutes handed to the Safety Agent
    recs,          \* plan: recommendation of each agent that has run
    agent_errors,  \* plan: agents whose score raised (the logged errors)
    response,      \* plan: what the caller receives
    in_options,    \* agent harness: the option sequence handed to the agents
    in_risk,       \* agent harness: risk_penalty handed to the Safety Agent
    in_night,      \* agent harness: night_walk_minutes handed to the Safety Agent
    out,           \* agent harness: recommendation returned by each agent called
    ad_name,       \* adapter harness: the adapter invoked
    ad_reply,      \* adapter harness: what the provider does with each tool call
    ad_out,        \* adapter harness: outcome of the adapter invocation
    cl_adapter,    \* client run: the adapter whose invocation is followed
    cl_pc,         \* client run: position inside the adapter invocation
    cl_call,       \* client run: number of the tool call in progress
    process,       \* client run: MCPClient.process (0 = None, else a process number)
    procs,         \* client run: every subprocess started so far
    response_line, \* client run: call_tool's response_line ("empty" / "junk")
    expired,       \* client run: the 5 seconds of the current read loop are over
    junk,          \* client run: lines written so far that are no complete JSON
    cl_results,    \* client run: outcome of each tool call finished so far
    sd_pc,             \* safety provider: position in get_safety_data
    walk_segments,     \* safety provider: the points of the walk
    time_of_day,       \* safety provider: the `when` string
    sd_risk_penalty,   \* safety provider: get_safety_data's risk_penalty
    sd_night_walk_min, \* safety provider: get_safety_data's night_walk_min
    sd_out             \* safety provider: what get_safety_data did

vars == <<pc, task, results, completed, calls, all_options, baseline,
          gather_out, options, last_resort, safety_reply, safety_data,
          risk_penalty, night_walk_min, recs, agent_errors, response,
          in_options, in_risk, in_night, out,
          ad_name, ad_reply, ad_out,
          cl_adapter, cl_pc, cl_call, process, procs, response_line, expired,
          junk, cl_results,
          sd_pc, walk_segments, time_of_day, sd_risk_penalty,
          sd_night_walk_min, sd_out>>

planVars == <<pc, task, results, completed, calls, all_options, baseline,
              gather_out, options, last_resort, safety_reply, safety_data,
              risk_penalty, night_walk_min, recs, agent_errors, response>>

harnessVars == <<in_options, in_risk, in_night, out>>

adapterVars == <<ad_name, ad_reply, ad_out>>

clientVars == <<cl_adapter, cl_pc, cl_call, process, procs, response_line,
                expired, junk, cl_results>>

safetyVars == <<sd_pc, walk_segments, time_of_day, sd_risk_penalty,
                sd_night_walk_min, sd_out>>

-----------------------------------------------------------------------------
(* Bounds *)

MaxOpts == 3        \* longest option sequence handed to the agent harness
MaxRoutes == 2      \* most routes in one transit provider answer
MaxProcs == 3       \* most subprocesses one adapter invocation manages to start
MaxJunk == 1        \* most lines without a complete JSON value a provider writes

-----------------------------------------------------------------------------
(* Data model: utils/models.py *)

None == -999
ScoreScale == 30000

Truthy(x) == x # None /\ x # 0

Range(seq) == {seq[i] : i \in DOMAIN seq}

NormalizedOption(id, mode, eta, wait, dur, walk, cost, co2) ==
    [id |-> id, mode |-> mode, eta_pickup_min |-> eta, wait_min |-> wait,
     duration_min |-> dur, walk_min |-> walk, cost_usd |-> cost, co2_g |-> co2]

\* (eta_pickup_min or wait_min or 0) + duration_min + (walk_min or 0)
total_time_min(opt) ==
    (IF Truthy(opt.eta_pickup_min) THEN opt.eta_pickup_min
     ELSE IF Truthy(opt.wait_min) THEN opt.wait_min ELSE 0)
    + opt.duration_min
    + (IF Truthy(opt.walk_min) THEN opt.walk_min ELSE 0)

\* cost_usd or 0.0
effective_cost_usd(opt) == IF Truthy(opt.cost_usd) THEN opt.cost_usd ELSE 0

AgentRecommendation(option_id, score, why) ==
    [option_id |-> option_id, score |-> score, why |-> why]

Max2(a, b) == IF a >= b THEN a ELSE b
Min2(a, b) == IF a <= b THEN a ELSE b

\* Python's min(seq, key=...): the first element with the smallest key.
RECURSIVE PyMinScan(_, _, _)
PyMinScan(keys, i, best) ==
    IF i > Len(keys) THEN best
    ELSE PyMinScan(keys, i + 1, IF keys[i] < keys[best] THEN i ELSE best)

PyMin(keys) == PyMinScan(keys, 2, 1)

\* Python's max(seq, key=...): the first element with the largest key.
RECURSIVE PyMaxScan(_, _, _)
PyMaxScan(keys, i, best) ==
    IF i > Len(keys) THEN best
    ELSE PyMaxScan(keys, i + 1, IF keys[i] > keys[best] THEN i ELSE best)

PyMax(keys) == PyMaxScan(keys, 2, 1)

\* [x for x in seq if x is in keep], order kept
RECURSIVE Filter(_, _)
Filter(seq, keep) ==
    IF seq = <<>> THEN <<>>
    ELSE (IF Head(seq) \in keep THEN <<Head(seq)>> ELSE <<>>) \o Filter(Tail(seq), keep)

NoOptionsRecBlank == AgentRecommendation("", 0, "")

NoOptionsRec == AgentRecommendation("", 0, "No options available")

-----------------------------------------------------------------------------
(* Scoring agents: agents/*.py *)

\* BaseAgent._normalize_score
_normalize_score(value, min_val, max_val) ==
    IF max_val = min_val THEN ScoreScale
    ELSE Max2(0, Min2(ScoreScale,
                      ((value - min_val) * ScoreScale) \div (max_val - min_val)))

Times(opts) == [i \in DOMAIN opts |-> total_time_min(opts[i])]
Costs(opts) == [i \in DOMAIN opts |-> effective_cost_usd(opts[i])]

SpeedAgentScoreBySpread(opts) ==
    IF opts = <<>> THEN NoOptionsRec
    ELSE LET times == Times(opts)
             fastest == PyMin(times)
             max_time == times[PyMax(times)]
             score == IF max_time = times[fastest] THEN ScoreScale
                      ELSE ScoreScale - (9 * ScoreScale) \div 10
         IN AgentRecommendation(opts[fastest].id, Max2(ScoreScale \div 10, score),
                "Fastest door-to-door at " \o ToString(times[fastest]) \o " minutes")

SpeedAgentScoreLast(opts) ==
    IF opts = <<>> THEN NoOptionsRec
    ELSE LET times == Times(opts)
             last == CHOOSE i \in DOMAIN opts :
                        /\ \A j \in DOMAIN opts : times[i] <= times[j]
                        /\ \A j \in DOMAIN opts : j > i => times[j] > times[i]
         IN AgentRecommendation(opts[last].id, ScoreScale,
                "Fastest door-to-door at " \o ToString(times[last]) \o " minutes")

\* SpeedAgent.score
SpeedAgentScore(opts) ==
    IF opts = <<>> THEN NoOptionsRec
    ELSE LET times == Times(opts)
             fastest == PyMin(times)
             fastest_time == times[fastest]
             max_time == times[PyMax(times)]
             min_time == fastest_time
             score == IF max_time = min_time THEN ScoreScale
                      ELSE ScoreScale
                           - ((fastest_time - min_time) * 9 * ScoreScale)
                             \div (10 * (max_time - min_time))
         IN AgentRecommendation(opts[fastest].id, Max2(ScoreScale \div 10, score),
                "Fastest door-to-door at " \o ToString(fastest_time) \o " minutes")

CostAgentScoreNoCap(opts) ==
    IF opts = <<>> THEN NoOptionsRec
    ELSE LET costs == Costs(opts)
             cheapest == PyMin(costs)
         IN AgentRecommendation(opts[cheapest].id, ScoreScale,
                "Lowest fare at $" \o ToString(costs[cheapest]) \o ".00 with reasonable time")

\* CostAgent.score
CostAgentScore(opts) ==
    IF opts = <<>> THEN NoOptionsRec
    ELSE LET times == Times(opts)
             fastest_time == times[PyMin(times)]
             time_cap == fastest_time * 2
             capped == Filter(opts, {o \in Range(opts) : total_time_min(o) <= time_cap})
             viable_options == IF capped = <<>> THEN opts ELSE capped
             costs == Costs(viable_options)
             cheapest == viable_options[PyMin(costs)]
             cheapest_cost == effective_cost_usd(cheapest)
             max_cost == costs[PyMax(costs)]
             min_cost == cheapest_cost
             score == IF max_cost = min_cost THEN ScoreScale
                      ELSE ScoreScale
                           - ((cheapest_cost - min_cost) * 9 * ScoreScale)
                             \div (10 * (max_cost - min_cost))
             penalised == IF total_time_min(cheapest) > time_cap
                          THEN score \div 2 ELSE score
         IN AgentRecommendation(cheapest.id, Max2(ScoreScale \div 10, penalised),
                "Lowest fare at $" \o ToString(cheapest_cost) \o ".00 with reasonable time")

\* EcoAgent._get_mode_weight
_get_mode_weight(mode) ==
    CASE mode = "walk" -> ScoreScale
      [] mode = "bike" -> (95 * ScoreScale) \div 100
      [] mode = "transit" -> (9 * ScoreScale) \div 10
      [] mode = "micromobility" -> (85 * ScoreScale) \div 100
      [] mode = "ridehail" -> (5 * ScoreScale) \div 10
      [] mode = "drive" -> (3 * ScoreScale) \div 10
      [] OTHER -> (5 * ScoreScale) \div 10

mode_names(mode) ==
    CASE mode = "walk" -> "walking"
      [] mode = "bike" -> "biking"
      [] mode = "transit" -> "public transit"
      [] mode = "micromobility" -> "scooter"
      [] mode = "ridehail" -> "ridehail"
      [] mode = "drive" -> "driving"
      [] OTHER -> mode

\* EcoAgent.score, the loop body: the score of one option
EcoOptionScoreNoPenalty(opt) == _get_mode_weight(opt.mode)

EcoOptionScore(opt) ==
    LET base_score == _get_mode_weight(opt.mode)
        co2_penalty == (ScoreScale \div 10000) * (IF Truthy(opt.co2_g) THEN opt.co2_g ELSE 0)
    IN Max2(0, Min2(ScoreScale, base_score - co2_penalty))

\* EcoAgent.score
EcoAgentScore(opts) ==
    IF opts = <<>> THEN NoOptionsRec
    ELSE LET scores == [i \in DOMAIN opts |-> EcoOptionScore(opts[i])]
             best == PyMax(scores)
             best_option == opts[best]
             co2_text == IF Truthy(best_option.co2_g) /\ best_option.co2_g < 500
                         THEN " with low emissions (" \o ToString(best_option.co2_g) \o "g CO2)"
                         ELSE ""
         IN AgentRecommendation(best_option.id, scores[best],
                "Eco-friendly " \o mode_names(best_option.mode) \o " option" \o co2_text)

SafetyOptionScoreFullRisk(opt, risk, night) ==
    LET time_score == ScoreScale - _normalize_score(total_time_min(opt), 0, 120)
        walk_penalty ==
            IF Truthy(opt.walk_min) /\ opt.walk_min > 0
            THEN IF Truthy(night) /\ night > 0
                 THEN Min2((4 * ScoreScale) \div 10, opt.walk_min * (ScoreScale \div 10))
                 ELSE Min2((2 * ScoreScale) \div 10, opt.walk_min * (ScoreScale \div 20))
            ELSE 0
        r == IF Truthy(risk) THEN risk ELSE 0
    IN Max2(0, Min2(ScoreScale, time_score - walk_penalty - r * (ScoreScale \div 100)))

SafetyOptionScoreUnclamped(opt, risk, night) ==
    LET time_score == ScoreScale - _normalize_score(total_time_min(opt), 0, 120)
        walk_penalty ==
            IF Truthy(opt.walk_min) /\ opt.walk_min > 0
            THEN IF Truthy(night) /\ night > 0
                 THEN Min2((4 * ScoreScale) \div 10, opt.walk_min * (ScoreScale \div 10))
                 ELSE Min2((2 * ScoreScale) \div 10, opt.walk_min * (ScoreScale \div 20))
            ELSE 0
        r == IF Truthy(risk) THEN risk ELSE 0
    IN time_score - walk_penalty - (r * (ScoreScale \div 100)) \div 2

\* SafetyAgent.score, the loop body: the score of one option
SafetyOptionScore(opt, risk, night) ==
    LET time_score == ScoreScale - _normalize_score(total_time_min(opt), 0, 120)
        walk_penalty ==
            IF Truthy(opt.walk_min) /\ opt.walk_min > 0
            THEN IF Truthy(night) /\ night > 0
                 THEN Min2((4 * ScoreScale) \div 10, opt.walk_min * (ScoreScale \div 10))
                 ELSE Min2((2 * ScoreScale) \div 10, opt.walk_min * (ScoreScale \div 20))
            ELSE 0
        r == IF Truthy(risk) THEN risk ELSE 0
        final_score == time_score - walk_penalty - (r * (ScoreScale \div 100)) \div 2
    IN Max2(0, Min2(ScoreScale, final_score))

SafetyAgentScoreByDay(opts, risk, night) ==
    IF opts = <<>> THEN NoOptionsRec
    ELSE LET scores == [i \in DOMAIN opts |-> SafetyOptionScore(opts[i], risk, 0)]
             safest == PyMax(scores)
         IN AgentRecommendation(opts[safest].id, scores[safest],
                "Balanced route with safety considerations")

\* SafetyAgent.score
SafetyAgentScore(opts, risk, night) ==
    IF opts = <<>> THEN NoOptionsRec
    ELSE LET scores == [i \in DOMAIN opts |-> SafetyOptionScore(opts[i], risk, night)]
             safest == PyMax(scores)
             safest_option == opts[safest]
             rationale ==
                IF Truthy(safest_option.walk_min) /\ safest_option.walk_min > 5
                THEN "Minimal walking (" \o ToString(safest_option.walk_min)
                     \o " min) reduces exposure"
                ELSE IF safest_option.mode = "ridehail"
                THEN "Door-to-door service avoids walking at night"
                ELSE "Balanced route with safety considerations"
         IN AgentRecommendation(safest_option.id, scores[safest], rationale)

Agents == <<"speed", "cost", "eco", "safety">>

\* agent.score(options, ...) as plan and the harness call it
AgentScore(agent, opts, risk, night) ==
    CASE agent = "speed" -> SpeedAgentScore(opts)
      [] agent = "cost" -> CostAgentScore(opts)
      [] agent = "eco" -> EcoAgentScore(opts)
      [] agent = "safety" -> SafetyAgentScore(opts, risk, night)

-----------------------------------------------------------------------------
(* Values that cross the tool boundary.  A JSON value is tagged with its   *)
(* Python type; a dictionary is a function from its keys.                  *)

JDict(d) == [t |-> "dict", v |-> d]
JList(l) == [t |-> "list", v |-> l]
JNull == [t |-> "null", v |-> <<>>]
EmptyDict == JDict(<<>>)

\* Python truthiness of a JSON value
PyTruthy(j) == \/ j.t = "dict" /\ DOMAIN j.v # {}
               \/ j.t = "list" /\ j.v # <<>>

\* d.get(key, default)
DictGet(d, key, default) == IF key \in DOMAIN d THEN d[key] ELSE default

\* The outcome of a call: an exception, or a returned value.
Raised == [kind |-> "exc", val |-> <<>>]
Returned(v) == [kind |-> "ret", val |-> v]

\* What the provider process does with one request.
FailStatuses == {"spawn_error", "timeout", "no_response", "bad_json",
                 "rpc_error", "no_content"}
Reply(status, payload) == [status |-> status, payload |-> payload]
FailReplies == {Reply(s, JNull) : s \in FailStatuses}

\* MCPClient.call_tool: the subprocess cannot be started -> the exception
\* leaves call_tool; every other failure -> {}; otherwise the decoded text.
call_tool(reply) ==
    IF reply.status = "spawn_error" THEN Raised
    ELSE IF reply.status = "ok" THEN Returned(reply.payload)
    ELSE Returned(EmptyDict)

-----------------------------------------------------------------------------
(* Provider adapters: adapters/*.py.  An adapter invocation returns        *)
(* [kind, val]: kind "exc" (it raised), "none" (returned None), "obj" (one *)
(* option, val = <<option>>) or "list" (val = the list).                   *)

AdapterRaised == [kind |-> "exc", val |-> <<>>]
AdapterNone == [kind |-> "none", val |-> <<>>]
AdapterObj(opt) == [kind |-> "obj", val |-> <<opt>>]
AdapterList(opts) == [kind |-> "list", val |-> opts]

HasId(d) == DictGet(d, "id", "") # ""

\* get_lime_options, lines 14-38
get_lime_options(reply) ==
    LET r == call_tool(reply)
    IN IF r.kind = "exc" THEN AdapterNone
       ELSE IF ~PyTruthy(r.val) THEN AdapterNone
       ELSE IF r.val.t # "dict" THEN AdapterNone       \* .get on a list raises, caught
       ELSE IF ~HasId(r.val.v) THEN AdapterNone
       ELSE LET d == r.val.v
            IN AdapterObj(NormalizedOption(d["id"],
                              DictGet(d, "mode", "micromobility"),
                              None,
                              DictGet(d, "wait_min", None),
                              DictGet(d, "duration_min", 0),
                              DictGet(d, "walk_min", 0),
                              DictGet(d, "cost_usd", 0),
                              0))

TransitOption(route) ==
    NormalizedOption(route["id"],
                     DictGet(route, "mode", "transit"),
                     None,
                     DictGet(route, "wait_min", None),
                     DictGet(route, "duration_min", 0),
                     DictGet(route, "walk_min", 0),
                     DictGet(route, "cost_usd", 0),
                     DictGet(route, "co2_g", 0))

\* get_transit_options, the loop of lines 27-39
RECURSIVE TransitLoop(_)
TransitLoop(routes) ==
    IF routes = <<>> THEN <<>>
    ELSE (IF DOMAIN Head(routes) # {} /\ HasId(Head(routes))
          THEN <<TransitOption(Head(routes))>> ELSE <<>>)
         \o TransitLoop(Tail(routes))

\* get_transit_options, lines 13-45
get_transit_options(reply) ==
    LET r == call_tool(reply)
    IN IF r.kind = "exc" THEN AdapterList(<<>>)
       ELSE LET result == r.val
                routes == IF result.t = "list" THEN result.v
                          ELSE IF PyTruthy(result) THEN <<result.v>> ELSE <<>>
            IN AdapterList(TransitLoop(routes))

modes == <<"walk", "bike", "drive">>

BaselineOption(mode, d) ==
    NormalizedOption(d["id"],
                     DictGet(d, "mode", mode),
                     None,
                     None,
                     DictGet(d, "duration_min", 0),
                     IF mode = "walk" THEN DictGet(d, "walk_min", 0) ELSE None,
                     DictGet(d, "cost_usd", 0),
                     DictGet(d, "co2_g", 0))

\* get_baseline_options, the loop of lines 18-35 from mode number m on; an
\* exception inside the loop ends it and keeps the options built so far
RECURSIVE BaselineLoop(_, _)
BaselineLoop(replies, m) ==
    IF m > Len(modes) THEN <<>>
    ELSE LET r == call_tool(replies[m])
         IN IF r.kind = "exc" THEN <<>>
            ELSE IF ~PyTruthy(r.val) THEN BaselineLoop(replies, m + 1)
            ELSE IF r.val.t # "dict" THEN <<>>
            ELSE (IF HasId(r.val.v)
                  THEN <<BaselineOption(modes[m], r.val.v)>> ELSE <<>>)
                 \o BaselineLoop(replies, m + 1)

\* get_baseline_options, lines 12-41
get_baseline_options(replies) == AdapterList(BaselineLoop(replies, 1))

-----------------------------------------------------------------------------
(* What the providers may answer *)

LimeRoute == [id |-> "lime-1", mode |-> "micromobility", wait_min |-> 1,
              duration_min |-> 8, walk_min |-> 1, cost_usd |-> 5]

LimeReplies ==
    FailReplies \cup
    {Reply("ok", JDict(LimeRoute)),
     Reply("ok", JDict([mode |-> "micromobility", duration_min |-> 8])),
     Reply("ok", JNull),
     Reply("ok", JList(<<LimeRoute>>))}

TransitRoutes ==
    {[id |-> "muni-38", mode |-> "transit", wait_min |-> 5, duration_min |-> 10,
      walk_min |-> 8, cost_usd |-> 3, co2_g |-> 200],
     [id |-> "muni-N", wait_min |-> 2, duration_min |-> 8, cost_usd |-> 3],
     [mode |-> "transit", duration_min |-> 9, cost_usd |-> 2]}

RECURSIVE SeqsUpTo(_, _)
SeqsUpTo(S, n) ==
    IF n = 0 THEN {<<>>}
    ELSE LET shorter == SeqsUpTo(S, n - 1)
         IN shorter \cup {Append(s, x) : s \in {t \in shorter : Len(t) = n - 1}, x \in S}

TransitReplies ==
    FailReplies \cup
    {Reply("ok", JList(l)) : l \in SeqsUpTo(TransitRoutes, MaxRoutes)} \cup
    {Reply("ok", JDict(r)) : r \in TransitRoutes} \cup
    {Reply("ok", JNull)}

BaselineRoute(mode) ==
    CASE mode = "walk" -> [id |-> "walk-1", mode |-> "walk", duration_min |-> 20,
                           walk_min |-> 20, cost_usd |-> 0, co2_g |-> 0]
      [] mode = "bike" -> [id |-> "bike-1", mode |-> "bike", duration_min |-> 7,
                           cost_usd |-> 0, co2_g |-> 50]
      [] mode = "drive" -> [id |-> "drive-1", mode |-> "drive", duration_min |-> 3,
                            cost_usd |-> 1, co2_g |-> 600]

BaselineReplies ==
    {<<w, b, d>> : w \in FailReplies \cup {Reply("ok", JDict(BaselineRoute("walk"))),
                                           Reply("ok", EmptyDict)},
                   b \in FailReplies \cup {Reply("ok", JDict(BaselineRoute("bike")))},
                   d \in FailReplies \cup {Reply("ok", JDict(BaselineRoute("drive"))),
                                           Reply("ok", JList(<<>>))}}

SafetyReplies ==
    FailReplies \cup
    {Reply("ok", JDict([risk_penalty |-> r, night_walk_minutes |-> n])) :
        <<r, n>> \in {<<0, 0>>, <<15, 0>>, <<30, 12>>}} \cup
    {Reply("ok", JDict([risk_penalty |-> 10])),
     Reply("ok", JList(<<10, 3>>)),
     Reply("ok", JNull)}

-----------------------------------------------------------------------------
(* gather_all_options: adapters/orchestrator.py *)

Adapters == <<"lime", "transit", "baseline">>    \* registration order
Slots == 1..Len(Adapters)

\* the mobility sources the tool server offers: get_uber_deeplink,
\* get_lyft_quote, get_lime_route, get_transit_routes, get_baseline_eta
MobilitySources == {"uber", "lyft", "lime", "transit", "baseline"}

NotInvoked == [kind |-> "pending", val |-> <<>>]

GatherResultsByCompletion(slots, order) == [k \in Slots |-> slots[order[k]]]

\* asyncio.gather(...): the result list holds each task's outcome at the
\* position of its awaitable, whatever the order of completion
GatherResults(slots, order) == [i \in Slots |-> slots[i]]

\* lines 35-45: skip exceptions and falsy results, extend by lists, append
\* single objects
RECURSIVE Flatten(_)
Flatten(rs) ==
    IF rs = <<>> THEN <<>>
    ELSE LET result == Head(rs)
         IN (IF result.kind = "exc" THEN <<>>
             ELSE IF result.kind = "none" THEN <<>>
             ELSE result.val)
            \o Flatten(Tail(rs))

\* lines 48-55: the fallback invocation is awaited unprotected; its list
\* extends the (empty) all_options
GatherReturn(all, b) ==
    IF b.kind = "exc" THEN AdapterRaised
    ELSE AdapterList(IF b.val # <<>> THEN all \o b.val ELSE all)

NeedsFallbackShort(all) == Len(all) <= 1

\* line 48
NeedsFallback(all) == all = <<>>

-----------------------------------------------------------------------------
(* plan: main.py *)

NotCalled == AgentRecommendation("-", -1, "not called")
NoResponse == [status |-> 0]

NoOptionsDetail == "No route options available"
FailedDetail == "Failed to calculate routes"

\* lines 161-167: an exception of gather_all_options leaves options empty
OptionsOfGather(g) == IF g.kind = "exc" THEN <<>> ELSE g.val

OptionsOfLastResortNone(r) == <<>>

\* lines 171-175: an exception of the baseline adapter leaves options empty
OptionsOfLastResort(r) == IF r.kind = "exc" THEN <<>> ELSE r.val

SafetyContextKeepsPenalty(sd) ==
    IF sd.kind = "exc" THEN <<30, 0>>
    ELSE IF sd.val.t = "dict"
         THEN <<DictGet(sd.val.v, "risk_penalty", 0),
                DictGet(sd.val.v, "night_walk_minutes", 0)>>
         ELSE <<0, 0>>

\* lines 185-206: <<risk_penalty, night_walk_min>> out of the tool call
SafetyContext(sd) ==
    IF sd.kind = "exc" THEN <<0, 0>>
    ELSE IF sd.val.t = "dict"
         THEN <<DictGet(sd.val.v, "risk_penalty", 0),
                DictGet(sd.val.v, "night_walk_minutes", 0)>>
         ELSE <<0, 0>>

PlaceholderEmpty(opts) == AgentRecommendation("", 0, "Agent unavailable")

\* plan.safe_agent_score, lines 223-235: the fallback recommendation
Placeholder(opts) ==
    IF opts # <<>>
    THEN AgentRecommendation(opts[1].id, ScoreScale \div 2,
                             "Agent unavailable, using first option")
    ELSE AgentRecommendation("", 0, "Agent unavailable")

safe_agent_score_reraise(raised, value, opts) ==
    IF raised THEN Raised ELSE Returned(value)

\* plan.safe_agent_score, lines 217-235
safe_agent_score(raised, value, opts) ==
    IF raised THEN Returned(Placeholder(opts)) ELSE Returned(value)

-----------------------------------------------------------------------------
(* The parts of the state a specification does not use rest at these values *)

HarnessIdle ==
    /\ in_options = <<>>
    /\ in_risk = None
    /\ in_night = None
    /\ out = [a \in Range(Agents) |-> NotCalled]

AdapterIdle ==
    /\ ad_name = "-"
    /\ ad_reply = <<>>
    /\ ad_out = NotInvoked

PlanIdle ==
    /\ pc = "idle"
    /\ task = [i \in Slots |-> "done"]
    /\ results = [i \in Slots |-> NotInvoked]
    /\ completed = <<>>
    /\ calls = [a \in MobilitySources |-> 0]
    /\ all_options = <<>>
    /\ baseline = NotInvoked
    /\ gather_out = NotInvoked
    /\ options = <<>>
    /\ last_resort = NotInvoked
    /\ safety_reply = Reply("none", JNull)
    /\ safety_data = NotInvoked
    /\ risk_penalty = 0
    /\ night_walk_min = 0
    /\ recs = [a \in Range(Agents) |-> NotCalled]
    /\ agent_errors = {}
    /\ response = NoResponse

SafetyIdle ==
    /\ sd_pc = "idle"
    /\ walk_segments = [n |-> 0, length |-> 0]
    /\ time_of_day = [form |-> "none", hour |-> 0, minute |-> 0]
    /\ sd_risk_penalty = None
    /\ sd_night_walk_min = None
    /\ sd_out = NotInvoked

ClientIdle ==
    /\ cl_adapter = "-"
    /\ cl_pc = "off"
    /\ cl_call = 0
    /\ process = 0
    /\ procs = <<>>
    /\ response_line = "empty"
    /\ expired = FALSE
    /\ junk = 0
    /\ cl_results = <<>>

-----------------------------------------------------------------------------
(* The plan request, step by step *)

Init ==
    /\ SafetyIdle
    /\ pc = "fanout"
    /\ task = [i \in Slots |-> "pending"]
    /\ results = [i \in Slots |-> NotInvoked]
    /\ completed = <<>>
    /\ calls = [a \in MobilitySources |-> 0]
    /\ all_options = <<>>
    /\ baseline = NotInvoked
    /\ gather_out = NotInvoked
    /\ options = <<>>
    /\ last_resort = NotInvoked
    /\ safety_reply = Reply("none", JNull)
    /\ safety_data = NotInvoked
    /\ risk_penalty = 0
    /\ night_walk_min = 0
    /\ recs = [a \in Range(Agents) |-> NotCalled]
    /\ agent_errors = {}
    /\ response = NoResponse
    /\ HarnessIdle
    /\ AdapterIdle
    /\ ClientIdle

\* One fan-out task runs adapter number i to its end: the adapters contain
\* no await, so a task is one uninterrupted step of the event loop.  Which
\* pending task the loop runs next is left open; asyncio.gather only fixes the
\* positions in its result list.  An adapter invocation either ends in an
\* exception (the case lines 31 and 37-40 of the orchestrator provide for) or
\* returns what the adapter's code makes of the provider's reply.
FinishTask(i, outcome) ==
    /\ pc = "fanout"
    /\ task[i] = "pending"
    /\ task' = [task EXCEPT ![i] = "done"]
    /\ results' = [results EXCEPT ![i] = outcome]
    /\ completed' = Append(completed, i)
    /\ calls' = [calls EXCEPT ![Adapters[i]] = @ + 1]
    /\ UNCHANGED <<pc, all_options, baseline, gather_out, options, last_resort,
                   safety_reply, safety_data, risk_penalty, night_walk_min,
                   recs, agent_errors, response, harnessVars, adapterVars, clientVars,
                   safetyVars>>

LimeTask ==
    \E raises \in BOOLEAN, reply \in LimeReplies :
        FinishTask(1, IF raises THEN AdapterRaised ELSE get_lime_options(reply))

TransitTask ==
    \E raises \in BOOLEAN, reply \in TransitReplies :
        FinishTask(2, IF raises THEN AdapterRaised ELSE get_transit_options(reply))

BaselineTask ==
    \E raises \in BOOLEAN, replies \in BaselineReplies :
        FinishTask(3, IF raises THEN AdapterRaised ELSE get_baseline_options(replies))

\* gather_all_options resumes after asyncio.gather: lines 34-48, and the
\* return of line 55 when something was gathered
GatherFlatten ==
    /\ pc = "fanout"
    /\ \A i \in Slots : task[i] = "done"
    /\ all_options' = Flatten(GatherResults(results, completed))
    /\ IF NeedsFallback(all_options')
       THEN pc' = "fallback" /\ UNCHANGED gather_out
       ELSE pc' = "gathered" /\ gather_out' = AdapterList(all_options')
    /\ UNCHANGED <<task, results, completed, calls, baseline, options,
                   last_resort, safety_reply, safety_data, risk_penalty,
                   night_walk_min, recs, agent_errors, response, harnessVars, adapterVars, clientVars,
                   safetyVars>>

\* gather_all_options, lines 49-55
GatherFallback ==
    /\ pc = "fallback"
    /\ \E raises \in BOOLEAN, replies \in BaselineReplies :
         LET b == IF raises THEN AdapterRaised ELSE get_baseline_options(replies)
             g == GatherReturn(all_options, b)
         IN /\ baseline' = b
            /\ gather_out' = g
            /\ all_options' = IF g.kind = "exc" THEN all_options ELSE g.val
    /\ calls' = [calls EXCEPT !["baseline"] = @ + 1]
    /\ pc' = "gathered"
    /\ UNCHANGED <<task, results, completed, options, last_resort, safety_reply,
                   safety_data, risk_penalty, night_walk_min, recs, agent_errors,
                   response, harnessVars, adapterVars, clientVars,
                   safetyVars>>

\* plan, lines 161-169; the frame of gather_all_options (its result list and
\* locals) is gone once it has returned
PlanAfterGather ==
    /\ pc = "gathered"
    /\ options' = OptionsOfGather(gather_out)
    /\ pc' = IF options' = <<>> THEN "last_resort" ELSE "safety_data"
    /\ task' = [i \in Slots |-> "done"]
    /\ results' = [i \in Slots |-> NotInvoked]
    /\ completed' = <<>>
    /\ all_options' = <<>>
    /\ baseline' = NotInvoked
    /\ UNCHANGED <<calls, gather_out, last_resort, safety_reply, safety_data,
                   risk_penalty, night_walk_min, recs, agent_errors, response,
                   harnessVars, adapterVars, clientVars,
                   safetyVars>>

\* plan, lines 170-181
PlanLastResort ==
    /\ pc = "last_resort"
    /\ \E raises \in BOOLEAN, replies \in BaselineReplies :
         LET r == IF raises THEN AdapterRaised ELSE get_baseline_options(replies)
         IN /\ last_resort' = r
            /\ options' = OptionsOfLastResort(r)
    /\ calls' = [calls EXCEPT !["baseline"] = @ + 1]
    /\ IF options' = <<>>
       THEN /\ response' = [status |-> 500, detail |-> NoOptionsDetail]
            /\ pc' = "done"
       ELSE /\ pc' = "safety_data"
            /\ UNCHANGED response
    /\ UNCHANGED <<task, results, completed, all_options, baseline, gather_out,
                   safety_reply, safety_data, risk_penalty, night_walk_min,
                   recs, agent_errors, harnessVars, adapterVars, clientVars,
                   safetyVars>>

\* plan, lines 183-208
PlanSafetyData ==
    /\ pc = "safety_data"
    /\ \E reply \in SafetyReplies :
         LET sd == call_tool(reply)
         IN /\ safety_reply' = reply
            /\ safety_data' = sd
            /\ risk_penalty' = SafetyContext(sd)[1]
            /\ night_walk_min' = SafetyContext(sd)[2]
    /\ pc' = Agents[1]
    /\ UNCHANGED <<task, results, completed, calls, all_options, baseline,
                   gather_out, options, last_resort, recs, agent_errors,
                   response, harnessVars, adapterVars, clientVars,
                   safetyVars>>

\* plan, lines 237-247: the call of agent number i through safe_agent_score.
\* agent.score either raises (raised) or returns its recommendation; an
\* exception that leaves safe_agent_score reaches the handler of line 266.
PlanAgent(i) ==
    /\ pc = Agents[i]
    /\ \E raised \in BOOLEAN :
         LET r == safe_agent_score(raised,
                      AgentScore(Agents[i], options, risk_penalty, night_walk_min),
                      options)
         IN /\ agent_errors' = IF raised THEN agent_errors \cup {Agents[i]}
                               ELSE agent_errors
            /\ IF r.kind = "exc"
               THEN /\ response' = [status |-> 500, detail |-> FailedDetail]
                    /\ pc' = "done"
                    /\ UNCHANGED recs
               ELSE /\ recs' = [recs EXCEPT ![Agents[i]] = r.val]
                    /\ pc' = IF i < Len(Agents) THEN Agents[i + 1] ELSE "respond"
                    /\ UNCHANGED response
    /\ UNCHANGED <<task, results, completed, calls, all_options, baseline,
                   gather_out, options, last_resort, safety_reply, safety_data,
                   risk_penalty, night_walk_min, harnessVars, adapterVars, clientVars,
                   safetyVars>>

\* plan, lines 254-262
PlanRespond ==
    /\ pc = "respond"
    /\ response' = [status |-> 200, options |-> options, agents |-> recs]
    /\ pc' = "done"
    /\ UNCHANGED <<task, results, completed, calls, all_options, baseline,
                   gather_out, options, last_resort, safety_reply, safety_data,
                   risk_penalty, night_walk_min, recs, agent_errors, harnessVars, adapterVars, clientVars,
                   safetyVars>>

Next ==
    \/ LimeTask
    \/ TransitTask
    \/ BaselineTask
    \/ GatherFlatten
    \/ GatherFallback
    \/ PlanAfterGather
    \/ PlanLastResort
    \/ PlanSafetyData
    \/ \E i \in DOMAIN Agents : PlanAgent(i)
    \/ PlanRespond

Spec == Init /\ [][Next]_vars

-----------------------------------------------------------------------------
(* The agents on their own: score() applied to bounded inputs.  The option *)
(* fields are whatever the NormalizedOption type admits, a negative        *)
(* duration included; ids are distinct and non-empty, as the adapters emit *)
(* them.  The empty sequence is an input too.                              *)

OptionShapes ==
    {NormalizedOption("", "ridehail", 3, None, 7, None, 20, 0),       \* 10 min, $20
     NormalizedOption("", "transit", None, 2, 8, 2, 5, 200),          \* 12 min, $5
     NormalizedOption("", "bike", None, None, 25, None, 1, 50),       \* 25 min, $1
     NormalizedOption("", "micromobility", None, 1, 8, 1, 5, None),   \* 10 min, $5
     NormalizedOption("", "drive", None, None, 130, 6, 0, 2000),      \* 136 min, $0
     NormalizedOption("", "walk", None, None, -6, 2, 0, 0),           \* -4 min, $0
     NormalizedOption("", "walk", None, None, 12, 12, 0, 0),          \* 24 min, $0
     NormalizedOption("", "ferry", 0, 4, 6, 0, 20, 400)}              \* 10 min, $20

WithIds(shapes) ==
    [i \in DOMAIN shapes |-> [shapes[i] EXCEPT !.id = "o" \o ToString(i)]]

OptionSeqs == {WithIds(s) : s \in SeqsUpTo(OptionShapes, MaxOpts)}

\* <<risk_penalty, night_walk_minutes>> as plan may pass them
Contexts == {<<None, None>>, <<0, 0>>, <<15, 0>>, <<15, 4>>, <<30, 12>>}

AgentInit ==
    /\ SafetyIdle
    /\ pc = "idle"
    /\ task = [i \in Slots |-> "done"]
    /\ results = [i \in Slots |-> NotInvoked]
    /\ completed = <<>>
    /\ calls = [a \in MobilitySources |-> 0]
    /\ all_options = <<>>
    /\ baseline = NotInvoked
    /\ gather_out = NotInvoked
    /\ options = <<>>
    /\ last_resort = NotInvoked
    /\ safety_reply = Reply("none", JNull)
    /\ safety_data = NotInvoked
    /\ risk_penalty = 0
    /\ night_walk_min = 0
    /\ recs = [a \in Range(Agents) |-> NotCalled]
    /\ agent_errors = {}
    /\ response = NoResponse
    /\ in_options \in OptionSeqs
    /\ \E c \in Contexts : in_risk = c[1] /\ in_night = c[2]
    /\ out = [a \in Range(Agents) |-> NotCalled]
    /\ AdapterIdle
    /\ ClientIdle

CallAgent(agent) ==
    /\ pc = "idle"
    /\ out[agent] = NotCalled
    /\ out' = [out EXCEPT ![agent] = AgentScore(agent, in_options, in_risk, in_night)]
    /\ UNCHANGED <<planVars, in_options, in_risk, in_night, adapterVars, clientVars,
                   safetyVars>>

CallSpeed == CallAgent("speed")
CallCost == CallAgent("cost")
CallEco == CallAgent("eco")
CallSafety == CallAgent("safety")

AgentNext == CallSpeed \/ CallCost \/ CallEco \/ CallSafety

AgentSpec == AgentInit /\ [][AgentNext]_vars

-----------------------------------------------------------------------------
(* The adapters on their own: one adapter invoked with what the provider   *)
(* does with each of its tool calls.                                       *)

get_uber_options_lenient(reply) ==
    LET r == call_tool(reply)
    IN IF r.kind = "exc" THEN AdapterNone
       ELSE IF r.val.t # "dict" THEN AdapterNone
       ELSE LET d == r.val.v
            IN AdapterObj(NormalizedOption(DictGet(d, "id", ""),
                              DictGet(d, "mode", "ridehail"),
                              DictGet(d, "eta_pickup_min", None),
                              None,
                              DictGet(d, "duration_min", 0),
                              0,
                              DictGet(d, "cost_usd", 0),
                              0))

\* get_uber_options, lines 7-37
get_uber_options(reply) ==
    LET r == call_tool(reply)
    IN IF r.kind = "exc" THEN AdapterNone
       ELSE IF ~PyTruthy(r.val) THEN AdapterNone
       ELSE IF r.val.t # "dict" THEN AdapterNone       \* .get on a list raises, caught
       ELSE IF ~HasId(r.val.v) THEN AdapterNone
       ELSE LET d == r.val.v
            IN AdapterObj(NormalizedOption(d["id"],
                              DictGet(d, "mode", "ridehail"),
                              DictGet(d, "eta_pickup_min", None),
                              None,
                              DictGet(d, "duration_min", 0),
                              0,
                              DictGet(d, "cost_usd", 0),
                              0))

UberRoute == [id |-> "uber-x-1", mode |-> "ridehail", eta_pickup_min |-> 5,
              duration_min |-> 9, cost_usd |-> 14]

UberReplies ==
    FailReplies \cup
    {Reply("ok", JDict(UberRoute)),
     Reply("ok", JDict([provider |-> "uber", duration_min |-> 9])),
     Reply("ok", EmptyDict),
     Reply("ok", JList(<<UberRoute>>))}

AdapterNames == {"lime", "transit", "baseline", "uber"}

\* the provider's answers to the tool calls of one invocation, in call order
RepliesOf(name) ==
    CASE name = "lime" -> {<<r>> : r \in LimeReplies}
      [] name = "transit" -> {<<r>> : r \in TransitReplies}
      [] name = "baseline" -> BaselineReplies
      [] name = "uber" -> {<<r>> : r \in UberReplies}

AdapterInit ==
    /\ SafetyIdle
    /\ PlanIdle
    /\ HarnessIdle
    /\ ClientIdle
    /\ ad_name \in AdapterNames
    /\ ad_reply \in RepliesOf(ad_name)
    /\ ad_out = NotInvoked

InvokeAdapter(name, outcome) ==
    /\ ad_name = name
    /\ ad_out = NotInvoked
    /\ ad_out' = outcome
    /\ UNCHANGED <<planVars, harnessVars, clientVars, ad_name, ad_reply,
                   safetyVars>>

InvokeLime == InvokeAdapter("lime", get_lime_options(ad_reply[1]))
InvokeTransit == InvokeAdapter("transit", get_transit_options(ad_reply[1]))
InvokeBaseline == InvokeAdapter("baseline", get_baseline_options(ad_reply))
InvokeUber == InvokeAdapter("uber", get_uber_options(ad_reply[1]))

AdapterNext == InvokeLime \/ InvokeTransit \/ InvokeBaseline \/ InvokeUber

AdapterSpec == AdapterInit /\ [][AdapterNext]_vars

-----------------------------------------------------------------------------
(* One adapter invocation followed through its MCP client: utils/mcp_client.py. *)
(* The client code is sequential; the provider subprocess and the clock    *)
(* move on their own.  A line on the subprocess's stdout is the number of  *)
(* the tool call it answers, or 0 for a line that is no complete JSON.     *)

\* tool calls of one invocation: the baseline adapter calls once per mode
NCalls(adapter) == IF adapter = "baseline" THEN Len(modes) ELSE 1

\* subprocess.Popen, lines 30-36: a fresh subprocess with open pipes
NewProcess == [state |-> "running", stdin |-> TRUE, inbox |-> <<>>, stdout |-> <<>>]

\* process is not None and process.poll() is None
Alive(p) == p # 0 /\ procs[p].state = "running"

CallOutcome(status, resp) == [status |-> status, resp |-> resp]

\* call_tool is left: by an exception (the adapter's except and finally
\* follow) or by a return (the adapter goes on to its next call, or to finally)
ReturnFromCall(outcome) ==
    /\ cl_results' = Append(cl_results, outcome)
    /\ IF outcome.status # "spawn_error" /\ cl_call < NCalls(cl_adapter)
       THEN cl_pc' = "ensure" /\ cl_call' = cl_call + 1
       ELSE cl_pc' = "close" /\ UNCHANGED cl_call

ClientInit ==
    /\ SafetyIdle
    /\ PlanIdle
    /\ HarnessIdle
    /\ AdapterIdle
    /\ cl_adapter \in Range(Adapters)
    /\ cl_pc = "ensure"
    /\ cl_call = 1
    /\ process = 0
    /\ procs = <<>>
    /\ response_line = "empty"
    /\ expired = FALSE
    /\ junk = 0
    /\ cl_results = <<>>

\* call_tool line 51: _ensure_process, lines 27-36; Popen may raise
EnsureProcess ==
    /\ cl_pc = "ensure"
    /\ IF Alive(process)
       THEN /\ cl_pc' = "check"
            /\ UNCHANGED <<process, procs, cl_call, cl_results>>
       ELSE \/ /\ Len(procs) < MaxProcs
               /\ procs' = Append(procs, NewProcess)
               /\ process' = Len(procs) + 1
               /\ cl_pc' = "check"
               /\ UNCHANGED <<cl_call, cl_results>>
            \/ /\ ReturnFromCall(CallOutcome("spawn_error", 0))
               /\ UNCHANGED <<process, procs>>
    /\ UNCHANGED <<cl_adapter, response_line, expired, junk,
                   planVars, harnessVars, adapterVars,
                   safetyVars>>

\* call_tool lines 53-57: the dead-process check
CheckAlive ==
    /\ cl_pc = "check"
    /\ IF Alive(process)
       THEN /\ cl_pc' = "write"
            /\ UNCHANGED <<process, procs, cl_call, cl_results>>
       ELSE \/ /\ Len(procs) < MaxProcs
               /\ procs' = Append(procs, NewProcess)
               /\ process' = Len(procs) + 1
               /\ cl_pc' = "write"
               /\ UNCHANGED <<cl_call, cl_results>>
            \/ /\ process' = 0
               /\ ReturnFromCall(CallOutcome("spawn_error", 0))
               /\ UNCHANGED procs
    /\ UNCHANGED <<cl_adapter, response_line, expired, junk,
                   planVars, harnessVars, adapterVars,
                   safetyVars>>

\* call_tool lines 70-87: the request is written; on a write error the handle
\* is dropped, a new subprocess is started and the request written to it (an
\* exception in there is caught at line 150: return {}); then the read loop
\* is set up
WriteRequest ==
    /\ cl_pc = "write"
    /\ IF Alive(process) /\ procs[process].stdin
       THEN /\ procs' = [procs EXCEPT ![process].inbox = Append(@, cl_call)]
            /\ cl_pc' = "loop"
            /\ UNCHANGED <<process, cl_call, cl_results>>
       ELSE \/ /\ Len(procs) < MaxProcs
               /\ procs' = Append(procs, [NewProcess EXCEPT !.inbox = <<cl_call>>])
               /\ process' = Len(procs) + 1
               /\ cl_pc' = "loop"
               /\ UNCHANGED <<cl_call, cl_results>>
            \/ /\ process' = 0
               /\ ReturnFromCall(CallOutcome("client_error", 0))
               /\ UNCHANGED procs
    /\ response_line' = "empty"
    /\ expired' = FALSE
    /\ UNCHANGED <<cl_adapter, junk, planVars, harnessVars, adapterVars,
                   safetyVars>>

\* call_tool line 89 and lines 111-114: the loop condition, the only place
\* where the elapsed time is looked at
LoopTop ==
    /\ cl_pc = "loop"
    /\ IF expired
       THEN ReturnFromCall(CallOutcome("timeout", 0))
       ELSE cl_pc' = "readline" /\ UNCHANGED <<cl_call, cl_results>>
    /\ UNCHANGED <<cl_adapter, process, procs, response_line, expired, junk,
                   planVars, harnessVars, adapterVars,
                   safetyVars>>

\* call_tool lines 93-148: stdout.readline() returns once a line is there or
\* the subprocess has ended; until then the call waits inside readline
ReadLine ==
    /\ cl_pc = "readline"
    /\ LET p == procs[process]
       IN IF p.stdout # <<>>
          THEN /\ procs' = [procs EXCEPT ![process].stdout = Tail(@)]
               /\ IF Head(p.stdout) # 0 /\ response_line = "empty"
                  THEN /\ ReturnFromCall(CallOutcome("ok", Head(p.stdout)))
                       /\ UNCHANGED response_line
                  ELSE /\ response_line' = "junk"
                       /\ cl_pc' = "loop"
                       /\ UNCHANGED <<cl_call, cl_results>>
          ELSE /\ p.state # "running"
               /\ ReturnFromCall(CallOutcome(IF response_line = "empty"
                                             THEN "no_response" ELSE "bad_json", 0))
               /\ UNCHANGED <<procs, response_line>>
    /\ UNCHANGED <<cl_adapter, process, expired, junk,
                   planVars, harnessVars, adapterVars,
                   safetyVars>>

\* the adapter's finally: MCPClient.close, lines 157-162
Close ==
    /\ cl_pc = "close"
    /\ IF process # 0
       THEN /\ procs' = [procs EXCEPT ![process].state = "terminated"]
            /\ process' = 0
       ELSE UNCHANGED <<process, procs>>
    /\ cl_pc' = "exited"
    /\ UNCHANGED <<cl_adapter, cl_call, response_line, expired, junk, cl_results,
                   planVars, harnessVars, adapterVars,
                   safetyVars>>

\* time.time() passes start_time + timeout
Tick ==
    /\ cl_pc \in {"loop", "readline"}
    /\ ~expired
    /\ expired' = TRUE
    /\ UNCHANGED <<cl_adapter, cl_pc, cl_call, process, procs, response_line,
                   junk, cl_results, planVars, harnessVars, adapterVars,
                   safetyVars>>

\* what the subprocess held in MCPClient.process does: one change of its record
ProviderStep(change) ==
    /\ Alive(process)
    /\ procs' = [procs EXCEPT ![process] = change]
    /\ UNCHANGED <<cl_adapter, cl_pc, cl_call, process, response_line, expired,
                   cl_results, planVars, harnessVars, adapterVars,
                   safetyVars>>

\* it answers the oldest request it has read
ProcAnswer ==
    /\ Alive(process)
    /\ procs[process].inbox # <<>>
    /\ ProviderStep([procs[process] EXCEPT
                        !.stdout = Append(@, Head(procs[process].inbox)),
                        !.inbox = Tail(@)])
    /\ UNCHANGED junk

\* it writes a line that is no complete JSON value
ProcJunk ==
    /\ Alive(process)
    /\ procs[process].inbox # <<>>
    /\ junk < MaxJunk
    /\ ProviderStep([procs[process] EXCEPT !.stdout = Append(@, 0)])
    /\ junk' = junk + 1

\* it ends
ProcExit ==
    /\ ProviderStep([procs[process] EXCEPT !.state = "exited"])
    /\ UNCHANGED junk

\* it closes its end of the request pipe and runs on: the next write fails
ProcCloseStdin ==
    /\ Alive(process)
    /\ procs[process].stdin
    /\ ProviderStep([procs[process] EXCEPT !.stdin = FALSE])
    /\ UNCHANGED junk

ClientStep ==
    \/ EnsureProcess
    \/ CheckAlive
    \/ WriteRequest
    \/ LoopTop
    \/ ReadLine
    \/ Close

ClientNext ==
    \/ ClientStep
    \/ Tick
    \/ ProcAnswer
    \/ ProcJunk
    \/ ProcExit
    \/ ProcCloseStdin

ClientSpec == ClientInit /\ [][ClientNext]_vars

\* the client code runs on whenever it is not waiting, and time passes
FairClientSpec == ClientSpec /\ WF_vars(ClientStep) /\ WF_vars(Tick)

-----------------------------------------------------------------------------
(* The safety context provider on its own: get_safety_data of              *)
(* mcp_server/main.py over mcp_server/providers/safety_adapter.py.  Times  *)
(* and durations are counted in half minutes.  A `when` string is one of   *)
(* six forms: none (the argument is left out), empty, malformed, naive     *)
(* ("2024-01-01T21:30:00"), Z ("2024-01-01T21:30:00Z") and offset          *)
(* ("2024-01-01T21:30:00+00:00"), with the hour and the minute it writes.  *)
(* The points of a walk are their number and the time it takes to walk     *)
(* along them.                                                             *)

HalfMin == 2
Hour == 60 * HalfMin
DayLen == 24 * Hour

WhenString(form, hour, minute) ==
    [form |-> form, hour |-> hour, minute |-> minute]

NoDatetime == [hour |-> None, minute |-> None, tzinfo |-> FALSE]
Datetime(hour, minute, tzinfo) ==
    [hour |-> hour, minute |-> minute, tzinfo |-> tzinfo]

\* _parse_datetime, line 72: time_of_day.replace('Z', '+00:00')
ReplaceZ(str) ==
    IF str.form = "Z" THEN WhenString("offset", str.hour, str.minute) ELSE str

\* _parse_datetime with a ValueError left to parse as 23:00
_parse_datetime_unguarded(when) ==
    IF when.form \in {"none", "empty"}
    THEN NoDatetime
    ELSE LET dt_str == ReplaceZ(when)
         IN  IF dt_str.form = "malformed"
             THEN Datetime(23, 0, FALSE)
             ELSE Datetime(dt_str.hour, dt_str.minute, dt_str.form = "offset")

\* `if not time_of_day: return None`; datetime.fromisoformat raises
\* ValueError on a malformed string, which is caught: None
_parse_datetime(when) ==
    IF when.form \in {"none", "empty"}
    THEN NoDatetime
    ELSE LET dt_str == ReplaceZ(when)
         IN  IF dt_str.form = "malformed"
             THEN NoDatetime
             ELSE Datetime(dt_str.hour, dt_str.minute, dt_str.form = "offset")

_is_night_time(dt) == dt.hour >= 22 \/ dt.hour < 6

\* _is_evening_or_early_morning reaching to 09:00
_is_evening_or_early_morning_nine(dt) ==
    (dt.hour >= 20 \/ dt.hour < 9) /\ ~_is_night_time(dt)

_is_evening_or_early_morning(dt) ==
    (dt.hour >= 20 \/ dt.hour < 8) /\ ~_is_night_time(dt)

\* the duration of the walk along the points, in half minutes
_calculate_walk_duration_minutes(segments) ==
    IF segments.n < 2 THEN 0 ELSE segments.length

\* get_safety_risk_score, in hundredths
get_safety_risk_score(segments, when) ==
    LET dt == _parse_datetime(when)
        time_risk ==
            IF dt # NoDatetime
            THEN IF _is_night_time(dt) THEN 15
                 ELSE IF _is_evening_or_early_morning(dt) THEN 8
                 ELSE 0
            ELSE 0
        walk_duration_min == _calculate_walk_duration_minutes(segments)
        length_risk ==
            IF segments.n >= 2
            THEN IF walk_duration_min > 10 * HalfMin THEN 10
                 ELSE IF walk_duration_min > 5 * HalfMin THEN 5
                 ELSE IF walk_duration_min > 2 * HalfMin THEN 2
                 ELSE 0
            ELSE 0
        risk == time_risk + length_risk
    IN  Min2(30, Max2(0, risk))

\* dt + timedelta(minutes=total_walk_min), counted from 00:00 of dt's day
EndTime(dt, total_walk_min) ==
    (dt.hour * 60 + dt.minute) * HalfMin + total_walk_min

EndHour(end_time) == (end_time % DayLen) \div Hour

\* get_safety_risk_score's companion get_night_walk_minutes.  In the
\* daytime branch night_start is built by datetime(year, month, day, 22, 0,
\* 0), which has no tzinfo: subtracting it from an end_time that has one
\* raises TypeError.
get_night_walk_minutes(segments, when) ==
    IF when.form \in {"none", "empty"} \/ segments.n < 2
    THEN Returned(0)
    ELSE
    LET dt == _parse_datetime(when) IN
    IF dt = NoDatetime
    THEN Returned(0)
    ELSE
    LET total_walk_min == _calculate_walk_duration_minutes(segments)
        end_time == EndTime(dt, total_walk_min)
        night_minutes ==
            IF dt.hour >= 22
            THEN ((24 - dt.hour) + 6) * 60 - dt.minute
            ELSE (6 - dt.hour) * 60 - dt.minute
        night_start == (end_time \div DayLen) * DayLen + 22 * Hour
        night_duration == end_time - night_start
    IN  IF _is_night_time(dt)
        THEN IF EndHour(end_time) >= 22 \/ EndHour(end_time) < 6
             THEN Returned(total_walk_min \div HalfMin)
             ELSE Returned(Min2(total_walk_min \div HalfMin,
                                Max2(0, night_minutes)))
        ELSE IF dt.hour < 22 /\ EndHour(end_time) >= 22
             THEN IF dt.tzinfo
                  THEN Raised
                  ELSE Returned(Max2(0, night_duration \div HalfMin))
             ELSE Returned(0)

MaxPoints == 3      \* most points in one walk

WalkLengths == {0, 1, 4, 5, 10, 11, 20, 21, 120, 400, 961}
WalkSegments ==
    {[n |-> n, length |-> 0] : n \in 0..MaxPoints} \cup
    {[n |-> n, length |-> l] : n \in 2..MaxPoints, l \in WalkLengths}

Minutes == {0, 30, 59}
Whens ==
    {WhenString(f, 0, 0) : f \in {"none", "empty", "malformed"}} \cup
    {WhenString(f, h, m) :
        f \in {"naive", "Z", "offset"}, h \in 0..23, m \in Minutes}

SafetyInit ==
    /\ PlanIdle
    /\ HarnessIdle
    /\ AdapterIdle
    /\ ClientIdle
    /\ sd_pc = "risk"
    /\ walk_segments \in WalkSegments
    /\ time_of_day \in Whens
    /\ sd_risk_penalty = None
    /\ sd_night_walk_min = None
    /\ sd_out = NotInvoked

\* get_safety_data, line 232
GetSafetyRiskScore ==
    /\ sd_pc = "risk"
    /\ sd_risk_penalty' = get_safety_risk_score(walk_segments, time_of_day)
    /\ sd_pc' = "night"
    /\ UNCHANGED <<walk_segments, time_of_day, sd_night_walk_min, sd_out,
                   planVars, harnessVars, adapterVars, clientVars>>

\* get_safety_data, line 233: an exception leaves the tool
GetNightWalkMinutes ==
    /\ sd_pc = "night"
    /\ LET r == get_night_walk_minutes(walk_segments, time_of_day)
       IN  IF r.kind = "exc"
           THEN /\ sd_out' = Raised
                /\ sd_pc' = "done"
                /\ UNCHANGED sd_night_walk_min
           ELSE /\ sd_night_walk_min' = r.val
                /\ sd_pc' = "return"
                /\ UNCHANGED sd_out
    /\ UNCHANGED <<walk_segments, time_of_day, sd_risk_penalty,
                   planVars, harnessVars, adapterVars, clientVars>>

\* get_safety_data, lines 235-238
ReturnSafetyData ==
    /\ sd_pc = "return"
    /\ sd_out' = Returned([risk_penalty |-> sd_risk_penalty,
                           night_walk_minutes |-> sd_night_walk_min])
    /\ sd_pc' = "done"
    /\ UNCHANGED <<walk_segments, time_of_day, sd_risk_penalty,
                   sd_night_walk_min,
                   planVars, harnessVars, adapterVars, clientVars>>

SafetyNext ==
    \/ GetSafetyRiskScore
    \/ GetNightWalkMinutes
    \/ ReturnSafetyData

SafetySpec == SafetyInit /\ [][SafetyNext]_vars

-----------------------------------------------------------------------------
(* Properties of gather_all_options, stated when it hands over to plan *)

\* the options one fan-out task returned: nothing if it raised or returned None
OptionsOfSlot(i) == IF results[i].kind \in {"obj", "list"} THEN results[i].val ELSE <<>>

\* the fan-out results, in registration order
FanOutOptions == OptionsOfSlot(1) \o OptionsOfSlot(2) \o OptionsOfSlot(3)

GatherOver == pc = "gathered"

\* C1: whatever each adapter invocation does (raises, returns nothing, returns
\* options), gather_all_options returns normally, and what it returns is
\* exactly the options of the invocations that did not fail.
C1_ErrorIsolation ==
    GatherOver =>
        /\ gather_out.kind = "list"
        /\ FanOutOptions # <<>> => gather_out.val = FanOutOptions
        /\ FanOutOptions = <<>> => gather_out.val = baseline.val

\* C2: the baseline adapter is invoked a second time exactly when the fan-out
\* gathered nothing; gather then yields what that invocation yields, so it is
\* empty only if that invocation was empty too; otherwise every adapter has
\* been invoked once.
C2_Fallback ==
    GatherOver =>
        /\ (FanOutOptions = <<>>) <=> (baseline # NotInvoked)
        /\ calls["baseline"] = (IF FanOutOptions = <<>> THEN 2 ELSE 1)
        /\ calls["lime"] = 1 /\ calls["transit"] = 1
        /\ FanOutOptions = <<>> => gather_out = baseline
        /\ gather_out = AdapterList(<<>>) => baseline = AdapterList(<<>>)

C2_Witness ==
    /\ GatherOver
    /\ FanOutOptions = <<>>
    /\ \A i \in Slots : results[i].kind # "exc"
    /\ Len(gather_out.val) = 1
    /\ gather_out.val[1].mode = "walk"

\* C3: the returned sequence is lime's options, then transit's, then the
\* baseline's, each in the order the adapter returned them, for every order in
\* which the three tasks completed.
C3_RegistrationOrder ==
    (GatherOver /\ gather_out.kind = "list" /\ baseline = NotInvoked) =>
        \E l, t, b \in 0..Len(gather_out.val) :
            /\ l + t + b = Len(gather_out.val)
            /\ SubSeq(gather_out.val, 1, l) = OptionsOfSlot(1)
            /\ SubSeq(gather_out.val, l + 1, l + t) = OptionsOfSlot(2)
            /\ SubSeq(gather_out.val, l + t + 1, l + t + b) = OptionsOfSlot(3)

C3_Witness ==
    /\ GatherOver
    /\ completed = <<3, 2, 1>>
    /\ \A i \in Slots : OptionsOfSlot(i) # <<>>
    /\ Len(OptionsOfSlot(2)) = 2
    /\ OptionsOfSlot(2)[1] # OptionsOfSlot(2)[2]

-----------------------------------------------------------------------------
(* Properties of plan *)

AgentKeys == {"speed", "cost", "eco", "safety"}
PlanOver == pc = "done"

\* C4: when plan has at least one option its response carries exactly the four
\* recommendations speed, cost, eco and safety, whatever failed inside; the
\* only error response is the one for no option at all.
C4_FourRecommendations ==
    PlanOver =>
        /\ options # <<>> =>
              /\ response.status = 200
              /\ DOMAIN response.agents = AgentKeys
              /\ \A a \in AgentKeys : response.agents[a] # NotCalled
        /\ response.status # 200 =>
              /\ options = <<>>
              /\ response = [status |-> 500, detail |-> NoOptionsDetail]

C4_Witness ==
    /\ PlanOver
    /\ response.status = 200
    /\ agent_errors = AgentKeys
    /\ safety_data.kind = "exc"

\* C5: a recommendation of an agent whose score raised is exactly the
\* placeholder (first option's id, 0.5, "Agent unavailable, using first
\* option"); the response still has its four keys and every other agent's
\* recommendation is the one it computes from the options and safety context.
C5_AgentFaultIsolation ==
    (PlanOver /\ agent_errors # {}) =>
        /\ response.status = 200
        /\ DOMAIN response.agents = AgentKeys
        /\ \A a \in agent_errors :
              response.agents[a] =
                  [option_id |-> options[1].id, score |-> ScoreScale \div 2,
                   why |-> "Agent unavailable, using first option"]
        /\ \A a \in AgentKeys \ agent_errors :
              response.agents[a] = AgentScore(a, options, risk_penalty, night_walk_min)

C5_Witness ==
    /\ PlanOver
    /\ agent_errors = {"cost"}
    /\ Len(options) >= 2
    /\ response.agents["speed"].option_id # options[1].id

GatherWasEmpty == gather_out = AdapterList(<<>>) /\ pc # "gathered"

SafetyCallFailed ==
    \/ safety_reply.status \in FailStatuses
    \/ safety_reply.status = "ok" /\ safety_reply.payload.t # "dict"

\* C7: when the safety-data call fails, plan goes on with risk_penalty 0.0 and
\* night_walk_minutes 0, the Safety Agent is scored with these, and the
\* response is not an error.
C7_SafetyDefaults ==
    SafetyCallFailed =>
        /\ risk_penalty = 0
        /\ night_walk_min = 0
        /\ (recs["safety"] # NotCalled /\ "safety" \notin agent_errors) =>
              recs["safety"] = SafetyAgentScore(options, 0, 0)
        /\ PlanOver => response.status = 200

C7_Witness ==
    /\ PlanOver
    /\ safety_reply.status = "spawn_error"
    /\ "safety" \notin agent_errors
    /\ response.status = 200
    /\ response.agents["safety"].option_id \in {o.id : o \in Range(options)}

-----------------------------------------------------------------------------
(* Properties of the agents *)

Called(agent) == out[agent] # NotCalled
InputIds == {in_options[i].id : i \in DOMAIN in_options}
MinTime == CHOOSE t \in Range(Times(in_options)) : \A u \in Range(Times(in_options)) : t <= u

\* C8: for a non-empty input each agent's score lies in [0, 1] and its
\* option_id is the id of an option of the input (for the Safety Agent: given
\* a risk penalty in [0, 0.3] and non-negative night walk minutes).
C8_ScoreRange ==
    \A a \in AgentKeys :
        (/\ Called(a)
         /\ in_options # <<>>
         /\ a = "safety" => in_risk \in 0..30 /\ in_night >= 0) =>
            /\ out[a].score >= 0
            /\ out[a].score <= ScoreScale
            /\ out[a].option_id \in InputIds

C8_Witness ==
    /\ \A a \in AgentKeys : Called(a)
    /\ in_risk = 30
    /\ in_night > 0
    /\ out["safety"].score = 0

\* C9: the Speed Agent returns the first option, in input order, whose
\* total_time_min is the minimum of the input.
C9_SpeedArgmin ==
    (Called("speed") /\ in_options # <<>>) =>
        \E i \in DOMAIN in_options :
            /\ out["speed"].option_id = in_options[i].id
            /\ total_time_min(in_options[i]) = MinTime
            /\ \A j \in 1..(i - 1) : total_time_min(in_options[j]) > MinTime

C9_Witness ==
    /\ Called("speed")
    /\ Len(in_options) = 3
    /\ total_time_min(in_options[2]) = MinTime
    /\ total_time_min(in_options[3]) = MinTime
    /\ total_time_min(in_options[1]) > MinTime
    /\ out["speed"].option_id = "o2"

WithinCap == {i \in DOMAIN in_options : total_time_min(in_options[i]) <= 2 * MinTime}

\* C10: when some option is within twice the minimum total time, the Cost
\* Agent returns the first option, in input order, of minimum effective cost
\* among the options within that cap, and never one above the cap.
C10_CostWithinCap ==
    (Called("cost") /\ WithinCap # {}) =>
        \E i \in WithinCap :
            /\ out["cost"].option_id = in_options[i].id
            /\ \A j \in WithinCap :
                  /\ effective_cost_usd(in_options[i]) <= effective_cost_usd(in_options[j])
                  /\ j < i => effective_cost_usd(in_options[j]) > effective_cost_usd(in_options[i])

\* the example: 10 min / $20, 12 min / $5, 25 min / $1 -> the 12 min option
C10_Witness ==
    /\ Called("cost")
    /\ Times(in_options) = <<10, 12, 25>>
    /\ Costs(in_options) = <<20, 5, 1>>
    /\ out["cost"].option_id = "o2"

\* the value the Eco Agent is to maximise: clamp(mode_weight - 0.0001 * co2_g, 0, 1)
EcoTarget(opt) ==
    LET weight == CASE opt.mode = "walk" -> 30000
                    [] opt.mode = "bike" -> 28500
                    [] opt.mode = "transit" -> 27000
                    [] opt.mode = "micromobility" -> 25500
                    [] opt.mode = "ridehail" -> 15000
                    [] opt.mode = "drive" -> 9000
                    [] OTHER -> 15000
        co2 == IF opt.co2_g = None THEN 0 ELSE opt.co2_g
        v == weight - 3 * co2
    IN IF v < 0 THEN 0 ELSE IF v > 30000 THEN 30000 ELSE v

\* C11: the Eco Agent returns the first option, in input order, that maximises
\* clamp(mode_weight(mode) - 0.0001 * co2_g, 0, 1), with that value as score.
C11_EcoArgmax ==
    (Called("eco") /\ in_options # <<>>) =>
        \E i \in DOMAIN in_options :
            /\ out["eco"].option_id = in_options[i].id
            /\ out["eco"].score = EcoTarget(in_options[i])
            /\ \A j \in DOMAIN in_options :
                  /\ EcoTarget(in_options[j]) <= EcoTarget(in_options[i])
                  /\ j < i => EcoTarget(in_options[j]) < EcoTarget(in_options[i])

\* a drive option with 2000 g first, then two walk options with 0 g
C11_Witness ==
    /\ Called("eco")
    /\ Len(in_options) = 3
    /\ in_options[1].mode = "drive" /\ in_options[1].co2_g = 2000
    /\ in_options[2].mode = "walk" /\ in_options[2].co2_g = 0
    /\ in_options[3].mode = "walk" /\ in_options[3].co2_g = 0
    /\ out["eco"].option_id = "o2"
    /\ out["eco"].score = ScoreScale

\* the Safety Agent's score for one option: the agent called on that option alone
SafetyScoreOf(opt, risk, night) == SafetyAgentScore(<<opt>>, risk, night).score

NightWalkers ==
    {i \in DOMAIN in_options : in_options[i].walk_min # None /\ in_options[i].walk_min > 0}

NightContext == Called("safety") /\ in_night # None /\ in_night > 0

\* C12 as stated: under a night context every option with walk_min > 0 scores
\* strictly lower than the same option under the day context, the risk
\* penalty being the same.
C12_NightStrictlyLower ==
    NightContext =>
        \A i \in NightWalkers :
            SafetyScoreOf(in_options[i], in_risk, in_night)
                < SafetyScoreOf(in_options[i], in_risk, 0)

\* C12: under a night context an option with walk_min > 0 never scores higher
\* than under the day context, and scores strictly lower whenever its
\* day-context score is above 0 (both scores are 0 once the clamp applies).
C12_NightLowerUnlessClamped ==
    NightContext =>
        \A i \in NightWalkers :
            LET night == SafetyScoreOf(in_options[i], in_risk, in_night)
                day == SafetyScoreOf(in_options[i], in_risk, 0)
            IN /\ night <= day
               /\ day > 0 => night < day

\* one option walked for 2 minutes, scored at night: 0.2 instead of 0.1 off
C12_Witness ==
    /\ NightContext
    /\ Len(in_options) = 1
    /\ NightWalkers = {1}
    /\ out["safety"].score > 0
    /\ out["safety"].score < SafetyScoreOf(in_options[1], in_risk, 0)

\* C13: for the empty option sequence each agent returns exactly option_id "",
\* score 0.0 and the rationale "No options available"; for a non-empty
\* sequence no agent returns an empty option_id.
C13_EmptyInput ==
    \A a \in AgentKeys :
        Called(a) =>
            /\ in_options = <<>> =>
                  out[a] = [option_id |-> "", score |-> 0, why |-> "No options available"]
            /\ in_options # <<>> => out[a].option_id # ""

C13_Witness ==
    /\ in_options = <<>>
    /\ \A a \in AgentKeys : Called(a) /\ out[a].why = "No options available"

-----------------------------------------------------------------------------
(* Properties of the adapters *)

AdapterInvoked == ad_out # NotInvoked

\* a tool call that failed: call_tool raised, timed out, got an error, no
\* response, nothing decodable or nothing in it; or the decoded result is
\* empty or has no id in it
CallFailed(reply) ==
    \/ reply.status # "ok"
    \/ reply.payload.t = "null"
    \/ reply.payload.t = "dict" /\ DictGet(reply.payload.v, "id", "") = ""
    \/ /\ reply.payload.t = "list"
       /\ (ad_name # "transit"
           \/ \A i \in DOMAIN reply.payload.v : DictGet(reply.payload.v[i], "id", "") = "")

\* C15: an adapter whose provider call fails (raises, times out, returns an
\* error, an empty or a malformed result) returns normally with zero options;
\* for the baseline adapter, which calls once per mode, a failed call
\* contributes no option and three failed calls give zero options.
C15_AdapterFailureIsolation ==
    AdapterInvoked =>
        /\ ad_out.kind # "exc"
        /\ (Len(ad_reply) = 1 /\ CallFailed(ad_reply[1])) => ad_out.val = <<>>
        /\ ad_name = "baseline" =>
              /\ \A m \in DOMAIN modes :
                    CallFailed(ad_reply[m]) =>
                        \A i \in DOMAIN ad_out.val : ad_out.val[i].mode # modes[m]
              /\ (\A m \in DOMAIN modes : CallFailed(ad_reply[m])) => ad_out.val = <<>>

\* the baseline adapter: walk answered, the subprocess cannot be started for
\* bike; the exception is caught and the walk option returned
C15_Witness ==
    /\ AdapterInvoked
    /\ ad_name = "baseline"
    /\ ad_reply[1].status = "ok"
    /\ ad_reply[2].status = "spawn_error"
    /\ ad_out.kind = "list"
    /\ Len(ad_out.val) = 1
    /\ ad_out.val[1].mode = "walk"

-----------------------------------------------------------------------------
(* Properties of one adapter invocation and its MCP client *)

InvocationOver == cl_pc = "exited"

\* C16: an adapter invocation always terminates: whatever the provider
\* subprocess does, the invocation reaches its exit.
C16_InvocationTerminates == <>InvocationOver

\* C18: when an adapter invocation has exited, no subprocess its client
\* started is still running.
C18_ScopedRelease ==
    InvocationOver => \A p \in DOMAIN procs : procs[p].state # "running"

-----------------------------------------------------------------------------
(* Further properties of gather_all_options *)

\* C17: the adapters run in parallel: once the provider call of one adapter
\* has completed, every registered adapter has started its own.
C17_AllStartedBeforeAnyCompletes ==
    (pc = "fanout" /\ \E i \in Slots : task[i] = "done") =>
        \A j \in Slots : task[j] # "pending"

\* C19: the fan-out of gather_all_options invokes the adapter of each
\* mobility source once.
C19_EverySourceInvoked ==
    (pc = "fanout" /\ \A i \in Slots : task[i] = "done") =>
        \A s \in MobilitySources : calls[s] = 1

\* C20: no two options of the sequence gather_all_options returns have the
\* same id.
C20_UniqueIds ==
    (GatherOver /\ gather_out.kind = "list") =>
        \A i, j \in DOMAIN gather_out.val :
            gather_out.val[i].id = gather_out.val[j].id => i = j

-----------------------------------------------------------------------------
(* Further properties of the agents *)

\* the value the Safety Agent is to maximise, in units of 1/30000:
\* clamp(time_score - walk_penalty - 0.5 * risk_penalty, 0, 1)
SafetyTarget(opt) ==
    LET t == total_time_min(opt) * 250
        time_score == 30000 - (IF t < 0 THEN 0 ELSE IF t > 30000 THEN 30000 ELSE t)
        w == IF opt.walk_min = None THEN 0 ELSE opt.walk_min
        at_night == in_night # None /\ in_night > 0
        walk_penalty == IF w = 0 THEN 0
                        ELSE IF at_night
                             THEN (IF 3000 * w < 12000 THEN 3000 * w ELSE 12000)
                             ELSE (IF 1500 * w < 6000 THEN 1500 * w ELSE 6000)
        risk == IF in_risk = None THEN 0 ELSE in_risk
        v == time_score - walk_penalty - 150 * risk
    IN IF v < 0 THEN 0 ELSE IF v > 30000 THEN 30000 ELSE v

\* C25: the Safety Agent returns the first option, in input order, with the
\* maximum of clamp(time_score - walk_penalty - 0.5 * risk_penalty, 0, 1), and
\* that value as score.
C25_SafetyFormula ==
    (Called("safety") /\ in_options # <<>>) =>
        \E i \in DOMAIN in_options :
            /\ out["safety"].option_id = in_options[i].id
            /\ out["safety"].score = SafetyTarget(in_options[i])
            /\ \A j \in DOMAIN in_options :
                  /\ SafetyTarget(in_options[j]) <= SafetyTarget(in_options[i])
                  /\ j < i => SafetyTarget(in_options[j]) < SafetyTarget(in_options[i])

\* night, risk 0.3: a 24 minute walk (12 walked), then twice the 10 minute
\* ridehail option; the second option wins with 1 - 10/120 - 0.15
C25_Witness ==
    /\ Called("safety")
    /\ in_risk = 30 /\ in_night = 12
    /\ Len(in_options) = 3
    /\ in_options[1].mode = "walk" /\ in_options[1].walk_min = 12
    /\ in_options[2].mode = "ridehail"
    /\ in_options[3].mode = "ridehail"
    /\ out["safety"].option_id = "o2"
    /\ out["safety"].score = 23000

NonNegativeTimes ==
    in_options # <<>> /\ \A i \in DOMAIN in_options : total_time_min(in_options[i]) >= 0

\* C27: when no total_time_min is negative, the fastest option is within the
\* Cost Agent's cap (the candidate set is not empty), the winner is within
\* the cap, and the score returned is exactly 1.0.
C27_CostCapAlwaysMet ==
    (Called("cost") /\ NonNegativeTimes) =>
        /\ \E i \in WithinCap : total_time_min(in_options[i]) = MinTime
        /\ \E i \in WithinCap : out["cost"].option_id = in_options[i].id
        /\ out["cost"].score = ScoreScale

\* fastest 10 min / $20, then 12 min / $5 and 25 min / $1 (over the cap)
C27_Witness ==
    /\ Called("cost")
    /\ NonNegativeTimes
    /\ Times(in_options) = <<10, 12, 25>>
    /\ Costs(in_options) = <<20, 5, 1>>
    /\ WithinCap = {1, 2}
    /\ out["cost"].score = ScoreScale

\* C28: for a non-empty input the Speed Agent's score is exactly 1.0,
\* whatever the spread of the times.
C28_SpeedScoreIsOne ==
    (Called("speed") /\ in_options # <<>>) => out["speed"].score = ScoreScale

\* times 10, 136 and 25 minutes
C28_Witness ==
    /\ Called("speed")
    /\ Times(in_options) = <<10, 136, 25>>
    /\ out["speed"].option_id = "o1"
    /\ out["speed"].score = ScoreScale

-----------------------------------------------------------------------------
(* Further properties of the adapters and of the MCP client *)

\* C29: the walk option the baseline adapter builds from the provider's
\* answer has total_time_min equal to the walking duration the provider
\* reported.
C29_WalkTimeCountedOnce ==
    (/\ AdapterInvoked
     /\ ad_name = "baseline"
     /\ ad_reply[1] = Reply("ok", JDict(BaselineRoute("walk")))) =>
        \A i \in DOMAIN ad_out.val :
            ad_out.val[i].mode = "walk" =>
                total_time_min(ad_out.val[i]) = BaselineRoute("walk").duration_min

\* C30: a tool call that returns a result returns the one derived from the
\* response to its own request.
C30_ResponseCorrelation ==
    \A k \in DOMAIN cl_results :
        cl_results[k].status = "ok" => cl_results[k].resp = k

-----------------------------------------------------------------------------
(* Properties of the safety context provider *)

ParsableWhen == time_of_day.form \in {"naive", "Z", "offset"}

\* +0.15 from 22:00 to 06:00, +0.08 from 20:00 to 22:00 and from 06:00 to
\* 08:00, in hundredths
TimeFactor ==
    IF ~ParsableWhen THEN 0
    ELSE IF time_of_day.hour \in {22, 23, 0, 1, 2, 3, 4, 5} THEN 15
    ELSE IF time_of_day.hour \in {20, 21, 6, 7} THEN 8
    ELSE 0

\* +0.10 above 10 minutes, +0.05 above 5, +0.02 above 2, in hundredths; the
\* walk's length is in half minutes
LengthFactor ==
    IF walk_segments.n < 2 THEN 0
    ELSE IF walk_segments.length > 20 THEN 10
    ELSE IF walk_segments.length > 10 THEN 5
    ELSE IF walk_segments.length > 4 THEN 2
    ELSE 0

\* C21: for a malformed `when` string get_safety_data does not raise and
\* answers as for an absent one: risk_penalty is the walk-length factor
\* alone and night_walk_minutes is 0.
C21_MalformedWhenAsAbsent ==
    time_of_day.form = "malformed" =>
        /\ sd_out.kind # "exc"
        /\ sd_pc = "done" =>
               sd_out = Returned([risk_penalty |-> LengthFactor,
                                  night_walk_minutes |-> 0])

C21_Witness ==
    /\ sd_pc = "done"
    /\ time_of_day.form = "malformed"
    /\ walk_segments = [n |-> 3, length |-> 21]
    /\ sd_out = Returned([risk_penalty |-> 10, night_walk_minutes |-> 0])

\* C22: risk_penalty is the time-of-day factor plus the walk-length factor,
\* clamped to [0, 0.3], and lies in [0, 0.3] for every input.
C22_RiskPenaltyFormula ==
    sd_risk_penalty # None =>
        /\ sd_risk_penalty = Min2(30, Max2(0, TimeFactor + LengthFactor))
        /\ sd_risk_penalty \in 0..30

C22_Witness ==
    /\ sd_pc = "done"
    /\ time_of_day = WhenString("Z", 21, 30)
    /\ walk_segments = [n |-> 2, length |-> 20]
    /\ sd_out.kind = "ret"
    /\ sd_out.val.risk_penalty = 13

\* C23: night_walk_minutes is 0 when `when` is absent or unparsable or
\* fewer than 2 points are given, and for every input it is a non-negative
\* integer not greater than the walk's duration.
C23_NightMinutesBounded ==
    sd_pc = "done" =>
        /\ sd_out.kind = "ret"
        /\ sd_out.val.night_walk_minutes \in Nat
        /\ sd_out.val.night_walk_minutes * HalfMin <= walk_segments.length
        /\ (~ParsableWhen \/ walk_segments.n < 2) =>
               sd_out.val.night_walk_minutes = 0

WalkStart == (time_of_day.hour * 60 + time_of_day.minute) * 2
WalkEnd == WalkStart + walk_segments.length
TenPM == 22 * 60 * 2
SixAMNextDay == (24 + 6) * 60 * 2

\* C24: for a walk that starts between 06:00 and 21:59 and goes on past
\* 22:00 of that day, night_walk_minutes is the whole minutes walked after
\* 22:00, also when the walk ends after midnight; when the walk ends before
\* 22:00 it is 0.  Stated of the walks that end by 06:00 of the next day,
\* and of the calls in which get_night_walk_minutes returns.
C24_DaytimeStartNightMinutes ==
    (/\ sd_pc = "return"
     /\ ParsableWhen
     /\ time_of_day.hour \in 6..21
     /\ walk_segments.n >= 2
     /\ WalkEnd <= SixAMNextDay) =>
        sd_night_walk_min =
            IF WalkEnd > TenPM THEN (WalkEnd - TenPM) \div 2 ELSE 0

\* C26: for every parsable `when`, naive or with a timezone offset,
\* get_safety_data returns risk_penalty and night_walk_minutes and does not
\* raise.
C26_ParsableWhenNeverRaises ==
    (sd_pc = "done" /\ ParsableWhen) =>
        /\ sd_out.kind = "ret"
        /\ DOMAIN sd_out.val = {"risk_penalty", "night_walk_minutes"}

====
